---- MODULE Spec2Model ----
(***************************************************************************)
(* Model of the ChatGPT micro-cap experiment: the recommendation parser    *)
(* (src/src/decision_maker.py), the dashboard read path (src/app.py) and   *)
(* the portfolio state machine behind process_portfolio.                   *)
(*                                                                         *)
(* A Python str is a sequence of one-character strings, so that strip,     *)
(* startswith, split, int and float are computed character by character.   *)
(***************************************************************************)
EXTENDS Integers, Sequences, FiniteSets, TLC

VARIABLES
    response_text,   \* _parse_actions: the argument, a str
    parsed,          \* _parse_actions: pending, returned (with the list) or raised
    portfolio_file,  \* chatgpt_portfolio_update.csv: absent, or its rows
    trade_file,      \* chatgpt_trade_log.csv: absent, or its rows
    pc,              \* the web worker: idle, or inside dashboard() after line 43
    portfolio,       \* dashboard(): the table loaded at line 43
    response,        \* the answer to the last request
    holdings,        \* process_portfolio: the portfolio argument
    cash,            \* process_portfolio: the cash argument
    day,             \* the kind of day the batch runs on
    market,          \* the prices the market-data provider has
    result,          \* process_portfolio: pending, returned or raised
    runs,            \* the batch runs: where each is in its script and what it holds
    written,         \* the ledger states the completed batch writes have left
    provider,        \* the market-data provider: per ticker, what history() does
    api_key,         \* DecisionMaker.api_key: os.getenv('OPENAI_API_KEY')
    llm,             \* what openai.ChatCompletion.create does when called
    reply,           \* the outcome of the last gateway call
    log_file,        \* decision_log.json: absent, or its text
    logged,          \* the decisions log_decision was called with, in call order
    log_outcome      \* the outcome of the last log_decision call

parser_vars == <<response_text, parsed>>
file_vars == <<portfolio_file, trade_file>>
web_vars == <<pc, portfolio, response>>
batch_vars == <<holdings, cash, day, market, result>>
run_vars == <<runs, written>>
gateway_vars == <<provider, api_key, llm, reply>>
log_vars == <<log_file, logged, log_outcome>>
vars == <<response_text, parsed, portfolio_file, trade_file, pc, portfolio, response,
          holdings, cash, day, market, result, runs, written, provider, api_key, llm,
          reply, log_file, logged, log_outcome>>

\* a ledger file is absent, or exists with its data rows
NoFile == [exists |-> FALSE]
FileOf(rows) == [exists |-> TRUE, rows |-> rows]

\* no request answered yet
NoResponse == [route |-> "none"]

\* a call that has not run yet
Pending == [state |-> "pending"]

\* no batch run exists
NoRuns ==
    /\ runs = <<>>
    /\ written = <<>>

\* no gateway call is made
NoGateway ==
    /\ provider = <<>>
    /\ api_key = [set |-> FALSE]
    /\ llm = [exc |-> "none", choices |-> <<>>]
    /\ reply = Pending

\* no decision is logged
NoLog ==
    /\ log_file = NoFile
    /\ logged = <<>>
    /\ log_outcome = Pending

(***************************************************************************)
(* Bounds of the model.                                                    *)
(***************************************************************************)
MaxLines == 2        \* lines of a response text
MaxRows == 3         \* rows of the holdings file
MaxTrades == 1       \* rows of the trade log
MaxPositions == 2    \* positions of a portfolio

(***************************************************************************)
(* Python str primitives used by _parse_actions.                           *)
(***************************************************************************)
Whitespace == {" ", "\t", "\r", "\n"}
Digit == {"0", "1", "2", "3", "4", "5", "6", "7", "8", "9"}

DigitVal(c) ==
    CASE c = "0" -> 0 [] c = "1" -> 1 [] c = "2" -> 2 [] c = "3" -> 3
      [] c = "4" -> 4 [] c = "5" -> 5 [] c = "6" -> 6 [] c = "7" -> 7
      [] c = "8" -> 8 [] c = "9" -> 9

\* the k-th smallest member of a set of positions
Kth(S, k) == CHOOSE i \in S : Cardinality({j \in S : j < i}) = k - 1

\* s.rstrip(chars): drop every trailing character that is in chars
rstrip(s, chars) ==
    LET keep == {i \in 1..Len(s) : s[i] \notin chars} IN
    IF keep = {} THEN <<>> ELSE SubSeq(s, 1, Kth(keep, Cardinality(keep)))

\* s.lstrip()
lstrip(s) ==
    LET keep == {i \in 1..Len(s) : s[i] \notin Whitespace} IN
    IF keep = {} THEN <<>> ELSE SubSeq(s, Kth(keep, 1), Len(s))

\* s.strip()
strip(s) == rstrip(lstrip(s), Whitespace)

\* s.startswith(prefix)
startswith(s, prefix) ==
    /\ Len(s) >= Len(prefix)
    /\ SubSeq(s, 1, Len(prefix)) = prefix

\* s.split(sep) for a one-character sep: the fields between the separators,
\* empty fields kept
split_sep(s, sep) ==
    LET at == {i \in 1..Len(s) : s[i] = sep}
        n  == Cardinality(at)
        from(k) == IF k = 1 THEN 1 ELSE Kth(at, k - 1) + 1
        upto(k) == IF k = n + 1 THEN Len(s) ELSE Kth(at, k) - 1
    IN  [k \in 1..(n + 1) |-> SubSeq(s, from(k), upto(k))]

\* s.split(): runs of whitespace separate the tokens, no empty token
split(s) ==
    LET first == {i \in 1..Len(s) :
                     s[i] \notin Whitespace /\ (i = 1 \/ s[i - 1] \in Whitespace)}
        last  == {i \in 1..Len(s) :
                     s[i] \notin Whitespace /\ (i = Len(s) \/ s[i + 1] \in Whitespace)}
    IN  [k \in 1..Cardinality(first) |-> SubSeq(s, Kth(first, k), Kth(last, k))]

RECURSIVE join(_, _)
\* sep.join(parts)
join(sep, parts) ==
    IF parts = <<>> THEN <<>>
    ELSE IF Len(parts) = 1 THEN parts[1]
    ELSE parts[1] \o sep \o join(sep, Tail(parts))

\* parts[k:] with a 0-based k, as Python slices: empty when k >= len(parts)
SliceFrom(parts, k) == SubSeq(parts, k + 1, Len(parts))

(***************************************************************************)
(* int(str) and float(str).  A digit group is digits with single           *)
(* underscores between them.  The result is either a value or the          *)
(* ValueError Python raises.  A float is kept exact as m / 10^e with no    *)
(* trailing zero in m (5.50 and 5.5 are the same float).  Exponents and    *)
(* inf/nan spellings are outside the alphabet of the texts below.          *)
(***************************************************************************)
RECURSIVE DigitGroupOk(_, _)
DigitGroupOk(s, prevDigit) ==
    IF s = <<>> THEN prevDigit
    ELSE IF Head(s) \in Digit THEN DigitGroupOk(Tail(s), TRUE)
    ELSE IF Head(s) = "_" /\ prevDigit THEN DigitGroupOk(Tail(s), FALSE)
    ELSE FALSE

IsDigitGroup(s) == s # <<>> /\ DigitGroupOk(s, FALSE)

RECURSIVE DigitsValue(_, _)
DigitsValue(s, acc) ==
    IF s = <<>> THEN acc
    ELSE IF Head(s) = "_" THEN DigitsValue(Tail(s), acc)
    ELSE DigitsValue(Tail(s), 10 * acc + DigitVal(Head(s)))

RECURSIVE CountDigits(_)
CountDigits(s) ==
    IF s = <<>> THEN 0
    ELSE (IF Head(s) \in Digit THEN 1 ELSE 0) + CountDigits(Tail(s))

Unsigned(s) == IF s # <<>> /\ Head(s) \in {"+", "-"} THEN Tail(s) ELSE s
SignOf(s) == IF s # <<>> /\ Head(s) = "-" THEN -1 ELSE 1

ValueError == [ok |-> FALSE, exc |-> "ValueError"]

\* int(tok)
int(tok) ==
    LET body == Unsigned(strip(tok)) IN
    IF IsDigitGroup(body)
    THEN [ok |-> TRUE, val |-> SignOf(strip(tok)) * DigitsValue(body, 0)]
    ELSE ValueError

RECURSIVE Normalise(_, _)
Normalise(m, e) ==
    IF e > 0 /\ m % 10 = 0 THEN Normalise(m \div 10, e - 1) ELSE [m |-> m, e |-> e]

RECURSIVE Pow10(_)
Pow10(n) == IF n = 0 THEN 1 ELSE 10 * Pow10(n - 1)

\* float(tok)
float(tok) ==
    LET body  == Unsigned(strip(tok))
        flds  == split_sep(body, ".")
        whole == flds[1]
        frac  == IF Len(flds) = 2 THEN flds[2] ELSE <<>>
        wellFormed ==
            /\ Len(flds) <= 2
            /\ whole = <<>> \/ IsDigitGroup(whole)
            /\ frac = <<>> \/ IsDigitGroup(frac)
            /\ whole # <<>> \/ frac # <<>>
        e == CountDigits(frac)
        m == DigitsValue(whole, 0) * Pow10(e) + DigitsValue(frac, 0)
    IN  IF wellFormed
        THEN [ok |-> TRUE, val |-> Normalise(SignOf(strip(tok)) * m, e)]
        ELSE ValueError

(***************************************************************************)
(* DecisionMaker._parse_actions                                            *)
(***************************************************************************)
PrefixHold == <<"-", " ", "H", "O", "L", "D">>
PrefixSell == <<"-", " ", "S", "E", "L", "L">>
PrefixBuy == <<"-", " ", "B", "U", "Y">>

\* parts[k] with the 0-based index the code writes
At(parts, k) == parts[k + 1]

\* the HOLD branch: no conversion, nothing can raise
HoldBranch(parts) ==
    IF Len(parts) >= 2
    THEN [exc |-> "none",
          out |-> <<[action |-> "HOLD",
                     ticker |-> rstrip(At(parts, 1), {":"}),
                     reason |-> join(<<" ">>, SliceFrom(parts, 2))]>>]
    ELSE [exc |-> "none", out |-> <<>>]

\* the body of the try block of the SELL branch: the dict is built field by
\* field, so the first failing conversion raises
SellTry(parts) ==
    LET shares == int(At(parts, 2))
        price  == float(At(parts, 4))
    IN  IF ~shares.ok THEN [exc |-> shares.exc, out |-> <<>>]
        ELSE IF ~price.ok THEN [exc |-> price.exc, out |-> <<>>]
        ELSE [exc |-> "none",
              out |-> <<[action |-> "SELL",
                         ticker |-> At(parts, 1),
                         shares |-> shares.val,
                         price  |-> price.val,
                         reason |-> join(<<" ">>, SliceFrom(parts, 5))]>>]

\* the body of the try block of the BUY branch
BuyTry(parts) ==
    LET shares    == int(At(parts, 2))
        max_price == float(At(parts, 4))
        stop_loss == float(At(parts, 6))
    IN  IF ~shares.ok THEN [exc |-> shares.exc, out |-> <<>>]
        ELSE IF ~max_price.ok THEN [exc |-> max_price.exc, out |-> <<>>]
        ELSE IF ~stop_loss.ok THEN [exc |-> stop_loss.exc, out |-> <<>>]
        ELSE [exc |-> "none",
              out |-> <<[action    |-> "BUY",
                         ticker    |-> At(parts, 1),
                         shares    |-> shares.val,
                         max_price |-> max_price.val,
                         stop_loss |-> stop_loss.val,
                         reason    |-> join(<<" ">>, SliceFrom(parts, 7))]>>]

\* a handler that forgets ValueError
Caught_IndexErrorOnly == {"IndexError"}

\* except (ValueError, IndexError): continue
Caught == {"ValueError", "IndexError"}

\* try: ... except (ValueError, IndexError): continue
TryExcept(r) ==
    IF r.exc \in Caught THEN [exc |-> "none", out |-> <<>>] ELSE r

\* one iteration of the for loop: what the line appends, or what it raises
ParseLine(raw) ==
    LET line  == strip(raw)
        parts == split(line)
    IN  IF startswith(line, PrefixHold) THEN HoldBranch(parts)
        ELSE IF startswith(line, PrefixSell)
             THEN (IF Len(parts) >= 5 THEN TryExcept(SellTry(parts))
                   ELSE [exc |-> "none", out |-> <<>>])
        ELSE IF startswith(line, PrefixBuy)
             THEN (IF Len(parts) >= 7 THEN TryExcept(BuyTry(parts))
                   ELSE [exc |-> "none", out |-> <<>>])
        ELSE [exc |-> "none", out |-> <<>>]

\* an append that skips an action already in the list
Appended_Dedup(actions, out) ==
    IF out # <<>> /\ (\E k \in 1..Len(actions) : actions[k] = out[1])
    THEN actions
    ELSE actions \o out

\* actions.append(...)
Appended(actions, out) == actions \o out

RECURSIVE ForLines(_, _, _)
\* for line in lines: ...; return actions
ForLines(lines, k, actions) ==
    IF k > Len(lines) THEN [state |-> "returned", actions |-> actions]
    ELSE LET r == ParseLine(lines[k]) IN
         IF r.exc # "none" THEN [state |-> "raised", exc |-> r.exc]
         ELSE ForLines(lines, k + 1, Appended(actions, r.out))

_parse_actions(text) == ForLines(split_sep(text, "\n"), 1, <<>>)

(***************************************************************************)
(* The response texts the parser is run on.                                *)
(***************************************************************************)
T_dash == <<"-">>
T_HOLD == <<"H", "O", "L", "D">>
T_SELL == <<"S", "E", "L", "L">>
T_BUY == <<"B", "U", "Y">>
T_at == <<"a", "t">>
T_stop_loss == <<"s", "t", "o", "p", "_", "l", "o", "s", "s">>
T_TEST == <<"T", "E", "S", "T">>
T_AB == <<"A", "B">>
T_10 == <<"1", "0">>
T_7 == <<"7">>
T_abc == <<"a", "b", "c">>
T_5p5 == <<"5", ".", "5">>
T_4p5 == <<"4", ".", "5">>
T_5p50 == <<"5", ".", "5", "0">>
T_because == <<"b", "e", "c", "a", "u", "s", "e">>
T_upside == <<"u", "p", "s", "i", "d", "e">>
T_x == <<"x">>
T_to == <<"t", "o">>
T_HOLDING == <<"H", "O", "L", "D", "I", "N", "G">>
T_ANALYSIS == <<"A", "N", "A", "L", "Y", "S", "I", "S", ":">>
T_plus1_0 == <<"+", "1", "_", "0">>
T_p5 == <<".", "5">>

Words(tokens) == join(<<" ">>, tokens)

\* the documented forms (decision_maker.py lines 51-53), with the value each
\* numeric token stands for
DocTickers == {T_TEST, T_AB}
DocShares == {[str |-> T_10, val |-> 10], [str |-> T_7, val |-> 7]}
DocPrices == {[str |-> T_5p5, val |-> [m |-> 55, e |-> 1]]}
DocStops == {[str |-> T_4p5, val |-> [m |-> 45, e |-> 1]]}
DocReasons == {T_because}

DocHold(t, r) == Words(<<T_dash, T_HOLD, t \o <<":">>, r>>)
DocSell(t, s, p, r) == Words(<<T_dash, T_SELL, t, s, T_at, p \o <<":">>, r>>)
DocBuy(t, s, p, sl, r) ==
    Words(<<T_dash, T_BUY, t, s, T_at, p, T_stop_loss, sl \o <<":">>, r>>)

DocHoldLines == {DocHold(t, r) : t \in DocTickers, r \in DocReasons}
DocSellLines ==
    {DocSell(t, s.str, p.str, r) :
        t \in DocTickers, s \in DocShares, p \in DocPrices, r \in DocReasons}
DocBuyLines ==
    {DocBuy(T_TEST, s.str, p.str, sl.str, T_upside) :
        s \in DocShares, p \in DocPrices, sl \in DocStops}

OtherLines ==
    { <<>>,
      Words(<<T_ANALYSIS, T_HOLD, T_at, T_5p5>>),
      Words(<<T_dash, T_HOLD>>),
      <<" ", " ">> \o Words(<<T_dash, T_HOLDING, T_AB>>) \o <<" ", "\t">>,
      <<"-", " ", " ">> \o Words(<<T_HOLD, T_AB>>),
      Words(<<T_dash, T_SELL, T_TEST, T_abc, T_at, T_5p5 \o <<":">>, T_x>>),
      Words(<<T_dash, T_SELL, T_10, T_at, T_5p5, T_because>>),
      Words(<<T_dash, T_SELL, T_10, T_to, T_5p50>>),
      Words(<<T_dash, T_SELL, T_plus1_0, T_at, T_p5, T_x>>),
      Words(<<T_dash, T_SELL, T_10, T_at, T_abc>>),
      Words(<<T_dash, T_SELL, T_10, T_at>>),
      Words(<<T_dash, T_BUY, T_7, T_at, T_5p5, T_stop_loss, T_4p5, T_upside>>),
      Words(<<T_dash, T_BUY, T_7, T_x, T_5p5, T_x, T_4p5>>),
      Words(<<T_dash, T_BUY, T_7, T_at, T_5p5, T_stop_loss, T_abc>>),
      Words(<<T_dash, T_BUY, T_7, T_at, T_5p5, T_stop_loss>>) }

Lines == DocHoldLines \cup DocSellLines \cup DocBuyLines \cup OtherLines

RECURSIVE SeqsUpTo(_, _)
\* the sequences over S of length at most n
SeqsUpTo(S, n) ==
    IF n = 0 THEN {<<>>}
    ELSE LET shorter == SeqsUpTo(S, n - 1) IN
         shorter \cup {Append(q, x) : q \in {p \in shorter : Len(p) = n - 1}, x \in S}

Texts == {join(<<"\n">>, ls) : ls \in SeqsUpTo(Lines, MaxLines)}

(***************************************************************************)
(* The parser as a state machine: a text arrives, _parse_actions runs.     *)
(***************************************************************************)
InitParse ==
    /\ response_text \in Texts
    /\ parsed = Pending
    /\ portfolio_file = NoFile
    /\ trade_file = NoFile
    /\ pc = "idle"
    /\ portfolio = <<>>
    /\ response = NoResponse
    /\ holdings = <<>>
    /\ cash = 0
    /\ day = "trading"
    /\ market = <<>>
    /\ result = Pending
    /\ NoRuns
    /\ NoGateway
    /\ NoLog

\* decision_maker.py line 96: "actions": self._parse_actions(decision_text)
ParseActions ==
    /\ parsed = Pending
    /\ parsed' = _parse_actions(response_text)
    /\ UNCHANGED <<response_text, file_vars, web_vars, batch_vars, run_vars, gateway_vars, log_vars>>

NextParse == ParseActions

SpecParse == InitParse /\ [][NextParse]_vars

(***************************************************************************)
(* Claims about the recommendation parser.                                 *)
(***************************************************************************)
LinesOf(text) == split_sep(text, "\n")
Returned == parsed # Pending /\ parsed.state = "returned"
InSeq(x, q) == \E k \in 1..Len(q) : q[k] = x

SellAction(t, s, p, r) ==
    [action |-> "SELL", ticker |-> t, shares |-> s.val, price |-> p.val, reason |-> r]
BuyAction(t, s, p, sl, r) ==
    [action |-> "BUY", ticker |-> t, shares |-> s.val, max_price |-> p.val,
     stop_loss |-> sl.val, reason |-> r]
HoldAction(t, r) == [action |-> "HOLD", ticker |-> t, reason |-> r]

\* C1: a well-formed SELL line "- SELL <ticker> <shares> at <price>: <reason>"
\* yields exactly one SELL action with that ticker, the integer shares, the
\* price and the reason; a text that is only that line yields only that action.
C1_SellLineYieldsAction ==
    parsed # Pending =>
        \A t \in DocTickers, s \in DocShares, p \in DocPrices, r \in DocReasons :
            /\ InSeq(DocSell(t, s.str, p.str, r), LinesOf(response_text)) =>
                   Returned /\ InSeq(SellAction(t, s, p, r), parsed.actions)
            /\ response_text = DocSell(t, s.str, p.str, r) =>
                   Returned /\ parsed.actions = <<SellAction(t, s, p, r)>>

\* C2: a well-formed BUY line
\* "- BUY <ticker> <shares> at <max_price> stop_loss <stop>: <reason>" yields
\* exactly one BUY action with that ticker, shares, max_price and stop_loss.
C2_BuyLineYieldsAction ==
    parsed # Pending =>
        \A t \in DocTickers, s \in DocShares, p \in DocPrices, sl \in DocStops :
            /\ InSeq(DocBuy(t, s.str, p.str, sl.str, T_upside), LinesOf(response_text)) =>
                   Returned /\ InSeq(BuyAction(t, s, p, sl, T_upside), parsed.actions)
            /\ response_text = DocBuy(t, s.str, p.str, sl.str, T_upside) =>
                   Returned /\ parsed.actions = <<BuyAction(t, s, p, sl, T_upside)>>

\* a token that cannot be a number: some character is no digit, sign, point
\* or digit separator
NotNumeric(tok) == \E k \in 1..Len(tok) : tok[k] \notin Digit \cup {"+", "-", ".", "_"}

\* a SELL or BUY line on which a token the parser converts to a number is not
\* numeric
BadNumericLine(raw) ==
    LET line  == strip(raw)
        parts == split(line)
    IN  \/ /\ startswith(line, PrefixSell)
           /\ Len(parts) >= 5
           /\ NotNumeric(parts[3]) \/ NotNumeric(parts[5])
        \/ /\ startswith(line, PrefixBuy)
           /\ Len(parts) >= 7
           /\ NotNumeric(parts[3]) \/ NotNumeric(parts[5]) \/ NotNumeric(parts[7])

WithoutLine(lines, k) == SubSeq(lines, 1, k - 1) \o SubSeq(lines, k + 1, Len(lines))

C4_HoldNeedsTicker ==
    parsed # Pending =>
        /\ response_text = Words(<<T_dash, T_HOLD>>) =>
               Returned /\ parsed.actions = <<>>
        /\ \A t \in DocTickers, r \in DocReasons :
               response_text = DocHold(t, r) =>
                   Returned /\ parsed.actions = <<HoldAction(t, r)>>

\* the line has the token `at` between the token that reads as shares n and
\* the token that reads as price x
AtBetween(parts, n, x) ==
    \E k \in 2..(Len(parts) - 1) :
        /\ parts[k] = T_at
        /\ int(parts[k - 1]) = [ok |-> TRUE, val |-> n]
        /\ float(parts[k + 1]) = [ok |-> TRUE, val |-> x]

\* the line has `at` <max_price> `stop_loss` <stop> after the shares
AtStopLoss(parts, n, x, y) ==
    \E k \in 2..(Len(parts) - 3) :
        /\ parts[k] = T_at
        /\ parts[k + 2] = T_stop_loss
        /\ int(parts[k - 1]) = [ok |-> TRUE, val |-> n]
        /\ float(parts[k + 1]) = [ok |-> TRUE, val |-> x]
        /\ float(parts[k + 3]) = [ok |-> TRUE, val |-> y]

\* C5: the keyword tokens are required: every SELL action comes from a line
\* with `at` between its shares and its price, every BUY action from a line
\* with `at` between shares and max_price and `stop_loss` before the stop.
C5_KeywordsRequired ==
    Returned =>
        \A j \in 1..Len(parsed.actions) :
            LET a == parsed.actions[j]
                lines == LinesOf(response_text)
            IN  /\ a.action = "SELL" =>
                       \E k \in 1..Len(lines) :
                           /\ startswith(strip(lines[k]), PrefixSell)
                           /\ AtBetween(split(lines[k]), a.shares, a.price)
                /\ a.action = "BUY" =>
                       \E k \in 1..Len(lines) :
                           /\ startswith(strip(lines[k]), PrefixBuy)
                           /\ AtStopLoss(split(lines[k]), a.shares, a.max_price, a.stop_loss)

HasActionPrefix(raw) ==
    \/ startswith(strip(raw), PrefixHold)
    \/ startswith(strip(raw), PrefixSell)
    \/ startswith(strip(raw), PrefixBuy)

RECURSIVE PerLine(_, _)
\* what each line parses to on its own, concatenated in line order
PerLine(lines, k) ==
    IF k > Len(lines) THEN <<>>
    ELSE _parse_actions(lines[k]).actions \o PerLine(lines, k + 1)

\* C6: the returned list is, in line order, what each line yields on its own:
\* at most one action per line, nothing for a line without an action prefix,
\* and a repeated line yields its action again.
C6_OrderNoDedup ==
    Returned =>
        LET lines == LinesOf(response_text) IN
        /\ \A k \in 1..Len(lines) :
               /\ _parse_actions(lines[k]).state = "returned"
               /\ Len(_parse_actions(lines[k]).actions) <= 1
               /\ ~HasActionPrefix(lines[k]) => _parse_actions(lines[k]).actions = <<>>
        /\ parsed.actions = PerLine(lines, 1)

\* C6's case: the same accepted line twice, and two different accepted lines
C6_Witness ==
    /\ Returned
    /\ Len(parsed.actions) = 2
    /\ Len(LinesOf(response_text)) = 2
    /\ LinesOf(response_text)[1] = LinesOf(response_text)[2]

(***************************************************************************)
(* The ledger files (src/app.py lines 17-36).  A file is absent or holds   *)
(* its data rows (the header row is always there).  Dates are the strings  *)
(* of the CSV, money is in cents.                                          *)
(***************************************************************************)
D_0109 == <<"2", "0", "2", "4", "-", "0", "1", "-", "0", "9">>
D_0110 == <<"2", "0", "2", "4", "-", "0", "1", "-", "1", "0">>
D_0201 == <<"2", "0", "2", "4", "-", "0", "2", "-", "0", "1">>
Dates == {D_0109, D_0110, D_0201}

HoldingRow(d, t, eq) ==
    [Date |-> d, Ticker |-> t, TotalEquity |-> eq, CashBalance |-> 4000, PnL |-> eq - 10000]

\* the equity the TOTAL row of a date reports
EquityOn(d) == IF d = D_0109 THEN 9550 ELSE IF d = D_0110 THEN 123450 ELSE 10000

HoldingRows ==
    {HoldingRow(d, "AAA", 5500) : d \in Dates}
    \cup {HoldingRow(d, "TOTAL", EquityOn(d)) : d \in Dates}

TradeRows == {[Date |-> D_0110, Ticker |-> "AAA", Action |-> "SELL", Shares |-> 10, Price |-> 450]}

HoldingsFiles == {NoFile} \cup {FileOf(rows) : rows \in SeqsUpTo(HoldingRows, MaxRows)}
TradeFiles == {NoFile} \cup {FileOf(rows) : rows \in SeqsUpTo(TradeRows, MaxTrades)}

(***************************************************************************)
(* pandas, as far as app.py uses it.                                       *)
(***************************************************************************)
\* code points of the characters of a Date string
Ord(c) == IF c = "-" THEN 45 ELSE IF c = "/" THEN 47 ELSE 48 + DigitVal(c)

RECURSIVE StrLess(_, _)
\* a < b on Python str: by code point, a proper prefix is smaller
StrLess(a, b) ==
    IF b = <<>> THEN FALSE
    ELSE IF a = <<>> THEN TRUE
    ELSE IF Head(a) # Head(b) THEN Ord(Head(a)) < Ord(Head(b))
    ELSE StrLess(Tail(a), Tail(b))

Column(df, col) == [k \in 1..Len(df) |-> df[k][col]]

\* Series.max() of a column of str
SeriesMax(column) ==
    CHOOSE x \in {column[k] : k \in 1..Len(column)} :
        \A k \in 1..Len(column) : ~StrLess(x, column[k])

\* pd.to_datetime of a YYYY-MM-DD string, as a day count that orders dates
\* as the calendar does
to_datetime(s) ==
    LET f == split_sep(s, "-") IN
    (int(f[1]).val * 12 + int(f[2]).val) * 31 + int(f[3]).val

\* sort_values('Date'): every order of the rows with the dates ascending (the
\* default quicksort promises nothing about rows with equal dates)
SortedByDate(df) ==
    LET n == Len(df)
        perms == {f \in [1..n -> 1..n] : \A i, j \in 1..n : i # j => f[i] # f[j]}
    IN  {[k \in 1..n |-> df[f[k]]] : f \in
            {g \in perms : \A k \in 1..(n - 1) :
                to_datetime(df[g[k]].Date) <= to_datetime(df[g[k + 1]].Date)}}

\* df.tail(n)
RecentCount == 10
tail(df, n) == SubSeq(df, IF Len(df) > n THEN Len(df) - n + 1 ELSE 1, Len(df))

\* pd.read_csv(path): the rows, or FileNotFoundError
read_csv(file) ==
    IF file.exists THEN [exc |-> "none", df |-> file.rows]
    ELSE [exc |-> "FileNotFoundError"]

\* pd.DataFrame()
EmptyDataFrame == [exc |-> "none", df |-> <<>>]

\* a loader without the exists() test
load_portfolio_data_Unguarded(file) == read_csv(file)

load_portfolio_data(file) ==
    IF file.exists THEN read_csv(file) ELSE EmptyDataFrame

load_trade_data(file) ==
    IF file.exists THEN read_csv(file) ELSE EmptyDataFrame

(***************************************************************************)
(* f"${x:,.2f}" for x given in cents.                                      *)
(***************************************************************************)
DigitChar(n) ==
    CASE n = 0 -> "0" [] n = 1 -> "1" [] n = 2 -> "2" [] n = 3 -> "3" [] n = 4 -> "4"
      [] n = 5 -> "5" [] n = 6 -> "6" [] n = 7 -> "7" [] n = 8 -> "8" [] n = 9 -> "9"

RECURSIVE Grouped(_)
\* the digits of n >= 0 with a comma before every group of three
Grouped(n) ==
    IF n < 10 THEN <<DigitChar(n)>>
    ELSE IF n < 1000 THEN Grouped(n \div 10) \o <<DigitChar(n % 10)>>
    ELSE Grouped(n \div 1000) \o <<",", DigitChar((n \div 100) % 10),
                                   DigitChar((n \div 10) % 10), DigitChar(n % 10)>>

FormatMoney(cents) ==
    LET a == IF cents < 0 THEN -cents ELSE cents IN
    <<"$">> \o (IF cents < 0 THEN <<"-">> ELSE <<>>) \o Grouped(a \div 100)
        \o <<".", DigitChar((a % 100) \div 10), DigitChar(a % 10)>>

(***************************************************************************)
(* The routes of app.py.  An exception that leaves a view is answered by   *)
(* Flask with status 500.                                                  *)
(***************************************************************************)
ServerError(route) == [route |-> route, status |-> 500]

IsTotal(row) == row.Ticker = "TOTAL"

\* lines 53-58: the positions of the latest date; df[mask] keeps the rows that
\* satisfy the mask in the order of df
latest_portfolio(df) ==
    LET latest_date == SeriesMax(Column(df, "Date"))
        Keep(row) == row.Date = latest_date /\ row.Ticker # "TOTAL"
    IN  SelectSeq(df, Keep)

\* statistics read from the first row of total_rows instead of the last
latest_stats_FirstRow(df, total_rows) ==
    IF total_rows # <<>>
    THEN [present      |-> TRUE,
          total_equity |-> FormatMoney(total_rows[1].TotalEquity),
          cash_balance |-> FormatMoney(total_rows[1].CashBalance),
          total_pnl    |-> FormatMoney(total_rows[1].PnL),
          last_updated |-> SeriesMax(Column(df, "Date"))]
    ELSE [present |-> FALSE]

\* lines 61-63 give total_rows; lines 132-138 read its last row
latest_stats(df, total_rows) ==
    IF total_rows # <<>>
    THEN [present      |-> TRUE,
          total_equity |-> FormatMoney(total_rows[Len(total_rows)].TotalEquity),
          cash_balance |-> FormatMoney(total_rows[Len(total_rows)].CashBalance),
          total_pnl    |-> FormatMoney(total_rows[Len(total_rows)].PnL),
          last_updated |-> SeriesMax(Column(df, "Date"))]
    ELSE [present |-> FALSE]

\* lines 66-130 and 140-142: the points of the chart, or the empty figure
graphJSON(total_rows) ==
    [k \in 1..Len(total_rows) |->
        <<to_datetime(total_rows[k].Date), total_rows[k].TotalEquity>>]

\* GET /, line 43: portfolio = load_portfolio_data()
dashboard_load ==
    /\ pc = "idle"
    /\ LET loaded == load_portfolio_data(portfolio_file) IN
       IF loaded.exc # "none"
       THEN /\ response' = ServerError("/")
            /\ UNCHANGED <<pc, portfolio>>
       ELSE /\ pc' = "dashboard"
            /\ portfolio' = loaded.df
            /\ response' = NoResponse
    /\ UNCHANGED <<batch_vars, parser_vars, file_vars, run_vars, gateway_vars, log_vars>>

\* a page whose statistics come from a second read of the holdings file
dashboard_render_Rereads ==
    /\ pc = "dashboard"
    /\ LET loaded == load_trade_data(trade_file)
           again  == load_portfolio_data(portfolio_file).df
       IN
       IF loaded.exc # "none"
       THEN response' = ServerError("/")
       ELSE \E total_rows \in SortedByDate(SelectSeq(again, IsTotal)) :
                response' =
                    [route     |-> "/",
                     status    |-> 200,
                     portfolio |-> IF portfolio # <<>>
                                   THEN latest_portfolio(portfolio) ELSE <<>>,
                     stats     |-> IF again # <<>>
                                   THEN latest_stats(again, total_rows)
                                   ELSE [present |-> FALSE],
                     graph     |-> IF again # <<>> THEN graphJSON(total_rows) ELSE <<>>,
                     trades    |-> tail(loaded.df, RecentCount)]
    /\ pc' = "idle"
    /\ portfolio' = <<>>
    /\ UNCHANGED <<batch_vars, parser_vars, file_vars, run_vars, gateway_vars, log_vars>>

\* GET /, lines 44-156: trades = load_trade_data(), then the page
dashboard_render ==
    /\ pc = "dashboard"
    /\ LET loaded == load_trade_data(trade_file) IN
       IF loaded.exc # "none"
       THEN response' = ServerError("/")
       ELSE \E total_rows \in SortedByDate(SelectSeq(portfolio, IsTotal)) :
                response' =
                    [route     |-> "/",
                     status    |-> 200,
                     portfolio |-> IF portfolio # <<>>
                                   THEN latest_portfolio(portfolio) ELSE <<>>,
                     stats     |-> IF portfolio # <<>>
                                   THEN latest_stats(portfolio, total_rows)
                                   ELSE [present |-> FALSE],
                     graph     |-> IF portfolio # <<>> THEN graphJSON(total_rows) ELSE <<>>,
                     trades    |-> tail(loaded.df, RecentCount)]
    /\ pc' = "idle"
    /\ portfolio' = <<>>
    /\ UNCHANGED <<batch_vars, parser_vars, file_vars, run_vars, gateway_vars, log_vars>>

\* GET /api/portfolio
api_portfolio ==
    /\ pc = "idle"
    /\ LET loaded == load_portfolio_data(portfolio_file) IN
       response' =
           IF loaded.exc # "none" THEN ServerError("/api/portfolio")
           ELSE [route  |-> "/api/portfolio",
                 status |-> 200,
                 body   |-> IF loaded.df # <<>>
                            THEN LET latest_date == SeriesMax(Column(loaded.df, "Date"))
                                     Keep(row) == row.Date = latest_date
                                 IN  SelectSeq(loaded.df, Keep)
                            ELSE <<>>]
    /\ UNCHANGED <<batch_vars, parser_vars, file_vars, pc, portfolio, run_vars, gateway_vars,
                 log_vars>>

\* GET /api/performance
api_performance ==
    /\ pc = "idle"
    /\ LET loaded == load_portfolio_data(portfolio_file) IN
       response' =
           IF loaded.exc # "none" THEN ServerError("/api/performance")
           ELSE [route  |-> "/api/performance",
                 status |-> 200,
                 body   |-> IF loaded.df # <<>> THEN SelectSeq(loaded.df, IsTotal) ELSE <<>>]
    /\ UNCHANGED <<batch_vars, parser_vars, file_vars, pc, portfolio, run_vars, gateway_vars,
                 log_vars>>

\* a view that leaves an empty trade log behind when there was none
api_trades_CreatesFile ==
    /\ pc = "idle"
    /\ response' = [route |-> "/api/trades", status |-> 200,
                    body |-> IF trade_file.exists THEN trade_file.rows ELSE <<>>]
    /\ trade_file' = IF trade_file.exists THEN trade_file ELSE FileOf(<<>>)
    /\ UNCHANGED <<batch_vars, parser_vars, portfolio_file, pc, portfolio, run_vars,
                 gateway_vars, log_vars>>

\* GET /api/trades
api_trades ==
    /\ pc = "idle"
    /\ LET loaded == load_trade_data(trade_file) IN
       response' =
           IF loaded.exc # "none" THEN ServerError("/api/trades")
           ELSE [route |-> "/api/trades", status |-> 200, body |-> loaded.df]
    /\ UNCHANGED <<batch_vars, parser_vars, file_vars, pc, portfolio, run_vars, gateway_vars,
                 log_vars>>

\* GET /health
health_check ==
    /\ pc = "idle"
    /\ response' = [route  |-> "/health",
                    status |-> 200,
                    portfolio_file_exists |-> portfolio_file.exists,
                    trade_file_exists     |-> trade_file.exists]
    /\ UNCHANGED <<batch_vars, parser_vars, file_vars, pc, portfolio, run_vars, gateway_vars,
                 log_vars>>

InitDash ==
    /\ portfolio_file \in HoldingsFiles
    /\ trade_file \in TradeFiles
    /\ pc = "idle"
    /\ portfolio = <<>>
    /\ response = NoResponse
    /\ response_text = <<>>
    /\ parsed = Pending
    /\ holdings = <<>>
    /\ cash = 0
    /\ day = "trading"
    /\ market = <<>>
    /\ result = Pending
    /\ NoRuns
    /\ NoGateway
    /\ NoLog

NextDash ==
    \/ dashboard_load
    \/ dashboard_render
    \/ api_portfolio
    \/ api_performance
    \/ api_trades
    \/ health_check

SpecDash == InitDash /\ [][NextDash]_vars

(***************************************************************************)
(* Claims about the dashboard read path.                                   *)
(***************************************************************************)
\* the calendar date a Date string names, as <<year, month, day>>
Ymd(s) == [k \in 1..3 |-> int(split_sep(s, "-")[k]).val]

\* date a is later in the calendar than date b
Later(a, b) ==
    \/ Ymd(a)[1] > Ymd(b)[1]
    \/ Ymd(a)[1] = Ymd(b)[1] /\ Ymd(a)[2] > Ymd(b)[2]
    \/ Ymd(a)[1] = Ymd(b)[1] /\ Ymd(a)[2] = Ymd(b)[2] /\ Ymd(a)[3] > Ymd(b)[3]

TotalsOn(rows, d) == {j \in 1..Len(rows) : rows[j].Ticker = "TOTAL" /\ rows[j].Date = d}

\* every date of the file has exactly one TOTAL row
OneTotalPerDate(rows) ==
    \A k \in 1..Len(rows) : Cardinality(TotalsOn(rows, rows[k].Date)) = 1

PageServed == response.route = "/" /\ response.status = 200

\* C7: for a holdings file with exactly one TOTAL row per date, the page shows
\* exactly the non-TOTAL rows of the latest date of the file, in file order,
\* and the statistics of the one TOTAL row of that date.
C7_LatestSnapshot ==
    (PageServed /\ portfolio_file.exists /\ portfolio_file.rows # <<>>
        /\ OneTotalPerDate(portfolio_file.rows)) =>
        LET rows == portfolio_file.rows IN
        \E k \in 1..Len(rows) :
            LET d == rows[k].Date
                OnLatest(row) == row.Date = d /\ row.Ticker # "TOTAL"
            IN  /\ \A j \in 1..Len(rows) : ~Later(rows[j].Date, d)
                /\ response.portfolio = SelectSeq(rows, OnLatest)
                /\ \E j \in TotalsOn(rows, d) :
                       response.stats =
                           [present      |-> TRUE,
                            total_equity |-> FormatMoney(rows[j].TotalEquity),
                            cash_balance |-> FormatMoney(rows[j].CashBalance),
                            total_pnl    |-> FormatMoney(rows[j].PnL),
                            last_updated |-> d]

\* C7's case: positions and a TOTAL row on the latest date, an older date with
\* another equity, and the latest date not at the end of the file
C7_Witness ==
    /\ PageServed
    /\ portfolio_file.exists
    /\ Len(portfolio_file.rows) = 3
    /\ OneTotalPerDate(portfolio_file.rows)
    /\ Len(response.portfolio) = 1
    /\ response.stats.present
    /\ Later(response.stats.last_updated, portfolio_file.rows[3].Date)
    /\ response.stats.total_equity # FormatMoney(portfolio_file.rows[3].TotalEquity)
    /\ response.stats.total_equity = <<"$", "1", ",", "2", "3", "4", ".", "5", "0">>

ApiRoutes == {"/api/portfolio", "/api/performance", "/api/trades"}

\* C8: a missing file loads as an empty table, each /api route over a missing
\* file answers 200 with the empty array, and no route answers with an error
\* while a file is missing.
C8_MissingFilesEmpty ==
    /\ ~portfolio_file.exists => load_portfolio_data(portfolio_file) = EmptyDataFrame
    /\ ~trade_file.exists => load_trade_data(trade_file) = EmptyDataFrame
    /\ (response.route \in {"/api/portfolio", "/api/performance"} /\ ~portfolio_file.exists) =>
           response.status = 200 /\ response.body = <<>>
    /\ (response.route = "/api/trades" /\ ~trade_file.exists) =>
           response.status = 200 /\ response.body = <<>>
    /\ (response # NoResponse /\ (~portfolio_file.exists \/ ~trade_file.exists)) =>
           response.status = 200

\* C8's case: an /api route answered with both files missing
C8_Witness ==
    /\ ~portfolio_file.exists
    /\ ~trade_file.exists
    /\ response.route \in ApiRoutes
    /\ response.status = 200
    /\ response.body = <<>>

\* C9: no request changes the contents of either CSV file.
C9_ReadOnly ==
    [][portfolio_file' = portfolio_file /\ trade_file' = trade_file]_vars

\* C9's case: the page was served from two existing files with rows
C9_Witness ==
    /\ PageServed
    /\ portfolio_file.exists /\ portfolio_file.rows # <<>>
    /\ trade_file.exists /\ trade_file.rows # <<>>
    /\ response.trades = trade_file.rows

\* C17: whenever the holdings file has rows and at least one TOTAL row, the
\* page shows statistics, and the last_updated date it shows is the date of
\* the TOTAL row the statistics are taken from, which is also the date of the
\* positions it lists.
C17_LastUpdatedIsStatsDate ==
    (PageServed /\ portfolio_file.exists /\ portfolio_file.rows # <<>>
        /\ (\E k \in 1..Len(portfolio_file.rows) : IsTotal(portfolio_file.rows[k]))) =>
        LET rows == portfolio_file.rows IN
        /\ response.stats.present
        /\ \E j \in 1..Len(rows) :
               /\ IsTotal(rows[j])
               /\ response.stats =
                      [present      |-> TRUE,
                       total_equity |-> FormatMoney(rows[j].TotalEquity),
                       cash_balance |-> FormatMoney(rows[j].CashBalance),
                       total_pnl    |-> FormatMoney(rows[j].PnL),
                       last_updated |-> rows[j].Date]
               /\ \A k \in 1..Len(response.portfolio) :
                      response.portfolio[k].Date = rows[j].Date

(***************************************************************************)
(* The portfolio state machine: process_portfolio(portfolio, cash,         *)
(* interactive=False), the advance of spec section 4.1, written from that   *)
(* contract and from what tests/test_trading.py expects of the call.       *)
(* Money is in cents.                                                      *)
(***************************************************************************)
Tickers == {"AAA", "BBB"}
Positions ==
    {[ticker |-> t, shares |-> 10, buy_price |-> 500, stop_loss |-> 450, cost_basis |-> 5000] :
        t \in Tickers}
Cashes == {0, 10000}
Days == {"trading", "weekend", "holiday"}

\* what the market-data provider has: a price for some of the tickers
Markets == UNION {[S -> {400, 450, 600}] : S \in SUBSET Tickers}

\* the named error of a non-trading day
DomainError(d) ==
    [kind |-> "DomainError", reason |-> IF d = "weekend" THEN "weekend" ELSE "market closed"]

RECURSIVE Advance(_, _, _, _, _)
\* one pass over the positions: a position at or under its stop-loss is sold
\* at the fresh price, any other is kept with its price refreshed
Advance(rest, prices, kept, new_cash, forced_sells) ==
    IF rest = <<>>
    THEN [holdings |-> kept, cash |-> new_cash, forced_sells |-> forced_sells]
    ELSE LET p == Head(rest) IN
         IF p.ticker \in DOMAIN prices /\ prices[p.ticker] <= p.stop_loss
         THEN Advance(Tail(rest), prices, kept,
                      new_cash + p.shares * prices[p.ticker],
                      Append(forced_sells,
                             [ticker |-> p.ticker, action |-> "SELL", shares |-> p.shares,
                              price |-> prices[p.ticker],
                              pnl |-> p.shares * prices[p.ticker] - p.cost_basis]))
         ELSE Advance(Tail(rest), prices, Append(kept, p), new_cash, forced_sells)

\* an advance that starts the new cash from nothing
advance_ForgetsCash(holdings_in, cash_in, prices) ==
    Advance(holdings_in, prices, <<>>, 0, <<>>)

\* an advance that credits the sale but leaves the sold row in the holdings
advance_KeepsSold(holdings_in, cash_in, prices) ==
    [Advance(holdings_in, prices, <<>>, cash_in, <<>>) EXCEPT !.holdings = holdings_in]

\* advance(holdings, cash, prices_by_ticker) -> (new_holdings, new_cash, forced_sells)
advance(holdings_in, cash_in, prices) ==
    Advance(holdings_in, prices, <<>>, cash_in, <<>>)

\* a process_portfolio that does nothing on a non-trading day and says nothing
process_portfolio_SilentNoOp(holdings_in, cash_in, d, prices) ==
    IF d # "trading"
    THEN [state |-> "returned", holdings |-> holdings_in, cash |-> cash_in,
          forced_sells |-> <<>>]
    ELSE LET r == advance(holdings_in, cash_in, prices) IN
         [state |-> "returned", holdings |-> r.holdings, cash |-> r.cash,
          forced_sells |-> r.forced_sells]

\* process_portfolio(portfolio, cash, interactive=False) on a day d
process_portfolio(holdings_in, cash_in, d, prices) ==
    IF d # "trading"
    THEN [state |-> "raised", error |-> DomainError(d)]
    ELSE LET r == advance(holdings_in, cash_in, prices) IN
         [state |-> "returned", holdings |-> r.holdings, cash |-> r.cash,
          forced_sells |-> r.forced_sells]

\* str(e).lower() contains "weekend" or "market"
ControlledMessage(error) == error.reason \in {"weekend", "market closed"}

\* the assertions of test_process_portfolio_with_empty_data on an outcome
test_process_portfolio_with_empty_data(outcome, cash_in) ==
    IF outcome.state = "returned"
    THEN (IF outcome.cash = cash_in THEN "passed" ELSE "failed")
    ELSE (IF ControlledMessage(outcome.error) THEN "passed" ELSE "failed")

InitAdvance ==
    /\ holdings \in SeqsUpTo(Positions, MaxPositions)
    /\ cash \in Cashes
    /\ day \in Days
    /\ market \in Markets
    /\ result = Pending
    /\ response_text = <<>>
    /\ parsed = Pending
    /\ portfolio_file = NoFile
    /\ trade_file = NoFile
    /\ pc = "idle"
    /\ portfolio = <<>>
    /\ response = NoResponse
    /\ NoRuns
    /\ NoGateway
    /\ NoLog

\* the call of process_portfolio (daily_update.py lines 28-32, test lines 82-86)
ProcessPortfolio ==
    /\ result = Pending
    /\ result' = process_portfolio(holdings, cash, day, market)
    /\ UNCHANGED <<holdings, cash, day, market, parser_vars, file_vars, web_vars, run_vars,
                 gateway_vars, log_vars>>

NextAdvance == ProcessPortfolio

SpecAdvance == InitAdvance /\ [][NextAdvance]_vars

(***************************************************************************)
(* Claims about the portfolio state machine.                               *)
(***************************************************************************)
\* C10: advancing an empty holdings table with nonzero cash returns the same
\* cash and an empty holdings table, or ends in the controlled non-trading-day
\* error; either way the repository's test of it passes.
C10_EmptyHoldingsKeepCash ==
    (result # Pending /\ holdings = <<>> /\ cash # 0) =>
        /\ \/ /\ result.state = "returned"
              /\ result.cash = cash
              /\ result.holdings = <<>>
           \/ /\ result.state = "raised"
              /\ day # "trading"
              /\ result.error.kind = "DomainError"
              /\ ControlledMessage(result.error)
        /\ test_process_portfolio_with_empty_data(result, cash) = "passed"

\* C10's case: the empty table was advanced on a trading day with cash 100.00
C10_Witness ==
    /\ result # Pending
    /\ result.state = "returned"
    /\ holdings = <<>>
    /\ cash = 10000
    /\ result.cash = 10000
    /\ result.holdings = <<>>

\* position k of the holdings has a fresh price
Priced(k) == holdings[k].ticker \in DOMAIN market

\* position k has a fresh price at or under its stop-loss
AtStop(k) == Priced(k) /\ market[holdings[k].ticker] <= holdings[k].stop_loss

RECURSIVE Proceeds(_)
\* shares x price over the positions 1..k that are at their stop-loss
Proceeds(k) ==
    IF k = 0 THEN 0
    ELSE Proceeds(k - 1)
         + (IF AtStop(k) THEN holdings[k].shares * market[holdings[k].ticker] ELSE 0)

\* how many entries of q satisfy being equal to x
CountOf(x, q) == Cardinality({j \in 1..Len(q) : q[j] = x})

SellsOf(t, q) == Cardinality({j \in 1..Len(q) : q[j].ticker = t /\ q[j].action = "SELL"})

\* C11: of the positions with a fresh price, one with price <= stop_loss is
\* removed from the holdings, credits cash with exactly shares x price and
\* gets exactly one SELL row; one with price > stop_loss stays, leaves cash
\* alone and gets no row.
C11_StopLossSells ==
    (result # Pending /\ result.state = "returned") =>
        /\ result.cash = cash + Proceeds(Len(holdings))
        /\ \A k \in 1..Len(holdings) :
               LET p == holdings[k] IN
               /\ AtStop(k) =>
                      /\ CountOf(p, result.holdings) = 0
                      /\ SellsOf(p.ticker, result.forced_sells)
                             = Cardinality({j \in 1..Len(holdings) : holdings[j] = p})
                      /\ \A j \in 1..Len(result.forced_sells) :
                             result.forced_sells[j].ticker = p.ticker =>
                                 /\ result.forced_sells[j].shares = p.shares
                                 /\ result.forced_sells[j].price = market[p.ticker]
               /\ (Priced(k) /\ ~AtStop(k)) =>
                      /\ CountOf(p, result.holdings) = CountOf(p, holdings)
                      /\ SellsOf(p.ticker, result.forced_sells) = 0
        /\ Len(result.forced_sells) = Cardinality({k \in 1..Len(holdings) : AtStop(k)})

\* C11's case: of two positions one sat exactly on its stop-loss and was sold
\* for 10 x 4.50, the other was above it and stayed
C11_Witness ==
    /\ result # Pending
    /\ result.state = "returned"
    /\ Len(holdings) = 2
    /\ AtStop(1) /\ market[holdings[1].ticker] = holdings[1].stop_loss
    /\ Priced(2) /\ ~AtStop(2)
    /\ cash = 10000
    /\ result.cash = 14500
    /\ result.holdings = <<holdings[2]>>
    /\ Len(result.forced_sells) = 1

(***************************************************************************)
(* The batch updater: scripts/daily_update.py main and                     *)
(* src/trading_engine.py run_automated_trading.  Both call                 *)
(* load_latest_portfolio_state and process_portfolio of trading_script,    *)
(* which are written here from spec sections 2, 3 and 4.1: the load gives  *)
(* the positions and the cash of the latest date of the holdings file, the *)
(* process step advances them and appends the day's snapshot and its       *)
(* forced sells to the two files.                                          *)
(***************************************************************************)
\* the date of the day the batch runs on
Today == D_0201

NoError == [kind |-> "none", reason |-> "none"]

\* the value of a kept position: at its fresh price, or at its buy price
ValueOf(p, prices) ==
    p.shares * (IF p.ticker \in DOMAIN prices THEN prices[p.ticker] ELSE p.buy_price)

RECURSIVE SumValues(_, _)
SumValues(kept, prices) ==
    IF kept = <<>> THEN 0 ELSE ValueOf(Head(kept), prices) + SumValues(Tail(kept), prices)

RECURSIVE SumCostBasis(_)
\* sum([row['cost_basis'] for _, row in chatgpt_portfolio.iterrows()])
SumCostBasis(kept) ==
    IF kept = <<>> THEN 0 ELSE Head(kept).cost_basis + SumCostBasis(Tail(kept))

\* a HoldingRow of a position
PositionRow(d, p, prices) ==
    [Date |-> d, Ticker |-> p.ticker, Shares |-> p.shares, BuyPrice |-> p.buy_price,
     StopLoss |-> p.stop_loss, CostBasis |-> p.cost_basis,
     TotalEquity |-> ValueOf(p, prices), CashBalance |-> 0,
     PnL |-> ValueOf(p, prices) - p.cost_basis]

\* the TOTAL row of a date: cash + sum(total_value), sum(pnl)
TotalRow(d, kept, cash_now, prices) ==
    [Date |-> d, Ticker |-> "TOTAL", Shares |-> 0, BuyPrice |-> 0, StopLoss |-> 0,
     CostBasis |-> 0,
     TotalEquity |-> cash_now + SumValues(kept, prices), CashBalance |-> cash_now,
     PnL |-> SumValues(kept, prices) - SumCostBasis(kept)]

\* the rows of one date: one per position, then the TOTAL row
Snapshot(d, kept, cash_now, prices) ==
    [k \in 1..Len(kept) |-> PositionRow(d, kept[k], prices)]
        \o <<TotalRow(d, kept, cash_now, prices)>>

\* the position a HoldingRow stands for
PositionOf(row) ==
    [ticker |-> row.Ticker, shares |-> row.Shares, buy_price |-> row.BuyPrice,
     stop_loss |-> row.StopLoss, cost_basis |-> row.CostBasis]

\* a TradeLogRow of a forced sell
TradeLogRow(d, sell) ==
    [Date |-> d, Ticker |-> sell.ticker, Action |-> sell.action, Shares |-> sell.shares,
     Price |-> sell.price, PnL |-> sell.pnl]

\* load_latest_portfolio_state(portfolio_file): the positions and the cash of
\* the latest date, or the error of the read
load_latest_portfolio_state(file) ==
    LET loaded == read_csv(file) IN
    IF loaded.exc # "none"
    THEN [state |-> "raised", error |-> [kind |-> loaded.exc, reason |-> "no such file"]]
    ELSE IF loaded.df = <<>>
    THEN [state |-> "returned", holdings |-> <<>>, cash |-> 0, date |-> <<>>]
    ELSE LET latest_date == SeriesMax(Column(loaded.df, "Date"))
             Held(row) == row.Date = latest_date /\ row.Ticker # "TOTAL"
             Total(row) == row.Date = latest_date /\ row.Ticker = "TOTAL"
             rows == SelectSeq(loaded.df, Held)
             totals == SelectSeq(loaded.df, Total)
         IN  [state    |-> "returned",
              holdings |-> [k \in 1..Len(rows) |-> PositionOf(rows[k])],
              cash     |-> IF totals = <<>> THEN 0 ELSE totals[Len(totals)].CashBalance,
              date     |-> latest_date]

\* rows appended to a table on storage; the file is created when missing
append_rows(file, new_rows) ==
    FileOf((IF file.exists THEN file.rows ELSE <<>>) \o new_rows)

\* the two scripts, one run of each
RunIds == {"daily_update", "trading_engine"}

\* the calls of a run that ends in success, in program order
Steps(script) ==
    IF script = "daily_update"
    THEN <<"load_latest_portfolio_state", "process_portfolio", "daily_results", "print_success">>
    ELSE <<"load_latest_portfolio_state", "process_portfolio", "print_success">>

\* a run at the top of its try block
Started ==
    [pc |-> "load", loaded |-> Pending, processed |-> Pending, calls |-> <<>>,
     error |-> NoError, status |-> "running", printed |-> 0]

\* except Exception as e: print(...); sys.exit(1) / return False
Except(run, call, error) ==
    [run EXCEPT !.pc = "done", !.calls = Append(@, call), !.error = error,
                !.status = "failure"]

\* a load that waits while another run is between its load and its end
batch_load_Locked(r) ==
    /\ runs[r].pc = "load"
    /\ \A o \in RunIds \ {r} : runs[o].pc \in {"load", "done"}
    /\ LET out == load_latest_portfolio_state(portfolio_file) IN
       runs' = [runs EXCEPT ![r] =
                   IF out.state = "raised"
                   THEN Except(@, "load_latest_portfolio_state", out.error)
                   ELSE [@ EXCEPT !.pc = "process", !.loaded = out,
                                  !.calls = Append(@, "load_latest_portfolio_state")]]
    /\ UNCHANGED <<file_vars, written, web_vars, batch_vars, parser_vars, gateway_vars,
                   log_vars>>

\* a load that is tried a second time when it fails
batch_load_Retry(r) ==
    /\ runs[r].pc = "load"
    /\ LET out == load_latest_portfolio_state(portfolio_file) IN
       runs' = [runs EXCEPT ![r] =
                   IF out.state = "raised" /\ @.calls = <<>>
                   THEN [@ EXCEPT !.calls = Append(@, "load_latest_portfolio_state")]
                   ELSE IF out.state = "raised"
                   THEN Except(@, "load_latest_portfolio_state", out.error)
                   ELSE [@ EXCEPT !.pc = "process", !.loaded = out,
                                  !.calls = Append(@, "load_latest_portfolio_state")]]
    /\ UNCHANGED <<file_vars, written, web_vars, batch_vars, parser_vars, gateway_vars,
                   log_vars>>

\* daily_update.py line 25, trading_engine.py line 24
batch_load(r) ==
    /\ runs[r].pc = "load"
    /\ LET out == load_latest_portfolio_state(portfolio_file) IN
       runs' = [runs EXCEPT ![r] =
                   IF out.state = "raised"
                   THEN Except(@, "load_latest_portfolio_state", out.error)
                   ELSE [@ EXCEPT !.pc = "process", !.loaded = out,
                                  !.calls = Append(@, "load_latest_portfolio_state")]]
    /\ UNCHANGED <<file_vars, written, web_vars, batch_vars, parser_vars, gateway_vars,
                   log_vars>>

\* daily_update.py lines 28-32, trading_engine.py lines 27-31: the advance and
\* the write of its outcome
batch_process(r) ==
    /\ runs[r].pc = "process"
    /\ LET out == process_portfolio(runs[r].loaded.holdings, runs[r].loaded.cash, day, market)
       IN  IF out.state = "raised"
           THEN /\ runs' = [runs EXCEPT ![r] = Except(@, "process_portfolio", out.error)]
                /\ UNCHANGED <<file_vars, written>>
           ELSE /\ runs' = [runs EXCEPT ![r] =
                               [@ EXCEPT !.pc = "report", !.processed = out,
                                         !.calls = Append(@, "process_portfolio")]]
                /\ trade_file' =
                       IF out.forced_sells = <<>> THEN trade_file
                       ELSE append_rows(trade_file,
                                [k \in 1..Len(out.forced_sells) |->
                                    TradeLogRow(Today, out.forced_sells[k])])
                /\ portfolio_file' =
                       append_rows(portfolio_file,
                                   Snapshot(Today, out.holdings, out.cash, market))
                /\ written' = Append(written, [portfolio_file |-> portfolio_file',
                                               trade_file |-> trade_file'])
    /\ UNCHANGED <<web_vars, batch_vars, parser_vars, gateway_vars, log_vars>>

\* daily_update.py lines 35-37: daily_results, which may fail on its own
\* market-data calls, then the success message; trading_engine.py lines 33-35:
\* the message with the portfolio value, then return True
batch_report(r) ==
    /\ runs[r].pc = "report"
    /\ IF r = "daily_update"
       THEN \E ok \in BOOLEAN :
                runs' = [runs EXCEPT ![r] =
                            IF ok
                            THEN [@ EXCEPT !.pc = "done", !.status = "success",
                                           !.calls = @ \o <<"daily_results", "print_success">>]
                            ELSE Except(@, "daily_results",
                                        [kind |-> "Exception", reason |-> "daily_results"])]
       ELSE runs' = [runs EXCEPT ![r] =
                        [@ EXCEPT !.pc = "done", !.status = "success",
                                  !.calls = Append(@, "print_success"),
                                  !.printed = runs[r].processed.cash
                                              + SumCostBasis(runs[r].processed.holdings)]]
    /\ UNCHANGED <<file_vars, written, web_vars, batch_vars, parser_vars, gateway_vars,
                   log_vars>>

\* the ledgers a run may find: no holdings file yet, or the snapshot of an
\* earlier day with 100.00 of cash
PositionA == [ticker |-> "AAA", shares |-> 10, buy_price |-> 500, stop_loss |-> 450,
              cost_basis |-> 5000]
PositionB == [ticker |-> "BBB", shares |-> 10, buy_price |-> 500, stop_loss |-> 450,
              cost_basis |-> 5000]
LedgerHoldings == {<<>>, <<PositionA>>, <<PositionA, PositionB>>}
LedgerHoldingsFiles ==
    {NoFile} \cup {FileOf(Snapshot(D_0110, hs, 10000, <<>>)) : hs \in LedgerHoldings}
LedgerTradeFiles ==
    {NoFile,
     FileOf(<<[Date |-> D_0109, Ticker |-> "CCC", Action |-> "SELL", Shares |-> 5,
               Price |-> 300, PnL |-> -100]>>)}

InitBatch ==
    /\ portfolio_file \in LedgerHoldingsFiles
    /\ trade_file \in LedgerTradeFiles
    /\ day \in Days
    /\ market \in Markets
    /\ runs = [r \in RunIds |-> Started]
    /\ written = <<[portfolio_file |-> portfolio_file, trade_file |-> trade_file]>>
    /\ pc = "idle"
    /\ portfolio = <<>>
    /\ response = NoResponse
    /\ holdings = <<>>
    /\ cash = 0
    /\ result = Pending
    /\ response_text = <<>>
    /\ parsed = Pending
    /\ NoGateway
    /\ NoLog

NextBatch ==
    \/ \E r \in RunIds : batch_load(r)
    \/ \E r \in RunIds : batch_process(r)
    \/ \E r \in RunIds : batch_report(r)
    \/ dashboard_load
    \/ dashboard_render

SpecBatch == InitBatch /\ [][NextBatch]_vars

(***************************************************************************)
(* Claims about the batch updater.                                         *)
(***************************************************************************)
Called(r, call) == InSeq(call, runs[r].calls)

\* C12: on a weekend or a holiday the advance ends in the named DomainError
\* (its message names the reason), the run that called it is aborted with
\* failure, and no step of the cycle changes the holdings file or the trade
\* log.
C12_NonTradingDayAborts ==
    /\ [](day # "trading" =>
            /\ \A r \in RunIds :
                   Called(r, "process_portfolio") =>
                       /\ runs[r].pc = "done"
                       /\ runs[r].status = "failure"
                       /\ runs[r].error = DomainError(day)
                       /\ runs[r].error.kind = "DomainError"
                       /\ ControlledMessage(runs[r].error)
                       /\ runs[r].calls = <<"load_latest_portfolio_state", "process_portfolio">>
            /\ portfolio_file = written[1].portfolio_file
            /\ trade_file = written[1].trade_file
            /\ Len(written) = 1)
    /\ [][day # "trading" => portfolio_file' = portfolio_file /\ trade_file' = trade_file]_vars

\* C12's case: on a weekend a run loaded a position that sits under its
\* stop-loss, called process_portfolio and was aborted
C12_Witness ==
    /\ day = "weekend"
    /\ runs["daily_update"].status = "failure"
    /\ Called("daily_update", "process_portfolio")
    /\ runs["daily_update"].loaded.holdings = <<PositionA>>
    /\ "AAA" \in DOMAIN market /\ market["AAA"] = 400
    /\ portfolio_file = FileOf(Snapshot(D_0110, <<PositionA>>, 10000, <<>>))
    /\ trade_file = NoFile

IsPrefix(a, b) == Len(a) <= Len(b) /\ SubSeq(b, 1, Len(a)) = a

\* C15: in a batch run the calls are made at most once each and in program
\* order; a call that raises is the last call of the run, which then ends in
\* failure without the success message; a run without exception makes every
\* call and ends in success; a run that has ended does nothing more.
C15_NoRetry ==
    /\ [](\A r \in RunIds :
            LET run == runs[r] IN
            /\ IsPrefix(run.calls, Steps(r))
            /\ run.error # NoError =>
                   /\ run.pc = "done"
                   /\ run.status = "failure"
                   /\ ~Called(r, "print_success")
                   /\ run.calls # Steps(r)
            /\ run.status = "failure" => run.error # NoError
            /\ (run.pc = "done" /\ run.error = NoError) =>
                   /\ run.status = "success"
                   /\ run.calls = Steps(r)
            /\ run.status = "success" => run.pc = "done" /\ run.error = NoError
            /\ run.pc # "done" => run.status = "running")
    /\ [][\A r \in RunIds : runs[r].pc = "done" => runs'[r] = runs[r]]_vars

\* C15's case: the daily update failed in daily_results after its load and its
\* process step, the trading engine ran through
C15_Witness ==
    /\ runs["daily_update"].status = "failure"
    /\ runs["daily_update"].calls
           = <<"load_latest_portfolio_state", "process_portfolio", "daily_results">>
    /\ runs["trading_engine"].status = "success"
    /\ runs["trading_engine"].calls = Steps("trading_engine")

\* both runs have written, each from the same loaded ledger state
SameLoadBothWritten ==
    /\ \A r \in RunIds : runs[r].processed # Pending
    /\ runs["daily_update"].loaded = runs["trading_engine"].loaded

\* C16: nothing keeps a run from loading while another run is under way, and
\* when both runs loaded the same ledger state and both wrote, the holdings
\* file holds the day's snapshot twice and the trade log holds every forced
\* sell of that state twice.
C16_UnguardedRace ==
    /\ \A r \in RunIds : runs[r].pc = "load" => ENABLED batch_load(r)
    /\ SameLoadBothWritten =>
           LET out == runs["daily_update"].processed
               sells == out.forced_sells
               snapshot == Snapshot(Today, out.holdings, out.cash, market)
               n == Len(portfolio_file.rows)
           IN  /\ runs["trading_engine"].processed = out
               /\ \A j \in 1..Len(sells) :
                      CountOf(TradeLogRow(Today, sells[j]), trade_file.rows)
                          = 2 * CountOf(sells[j], sells)
               /\ SubSeq(portfolio_file.rows, n - 2 * Len(snapshot) + 1, n)
                      = snapshot \o snapshot

\* C16's case: both runs loaded the position AAA under its stop-loss before
\* either wrote, both sold it, and the trade log holds the sale twice
C16_Witness ==
    /\ SameLoadBothWritten
    /\ runs["daily_update"].loaded.holdings = <<PositionA>>
    /\ Len(runs["daily_update"].processed.forced_sells) = 1
    /\ trade_file.exists
    /\ SellsOf("AAA", [k \in 1..Len(trade_file.rows) |->
                          [ticker |-> trade_file.rows[k].Ticker,
                           action |-> trade_file.rows[k].Action]]) = 2
    /\ runs["daily_update"].processed.cash = 14000
    /\ runs["trading_engine"].processed.cash = 14000

\* the table a ledger file holds
TableOf(file) == IF file.exists THEN file.rows ELSE <<>>

\* the page resp shows the positions, the statistics and the chart of a
\* holdings table
ShowsTable(resp, table) ==
    IF table = <<>>
    THEN resp.portfolio = <<>> /\ resp.stats = [present |-> FALSE] /\ resp.graph = <<>>
    ELSE /\ resp.portfolio = latest_portfolio(table)
         /\ \E total_rows \in SortedByDate(SelectSeq(table, IsTotal)) :
                /\ resp.stats = latest_stats(table, total_rows)
                /\ resp.graph = graphJSON(total_rows)

ShowsHoldings(resp, file) == ShowsTable(resp, TableOf(file))

\* the page resp shows the recent trades of the trade log
ShowsTrades(resp, file) == resp.trades = tail(TableOf(file), RecentCount)

MaxTickers == 2      \* tickers of one get_multiple_prices call

\* the tickers of tests/test_data.py
FetchTickers == {"AAPL", "MSFT", "INVALID_TICKER_12345"}

\* what yf.Ticker(t).history(...) does: it raises, or gives a table of rows
\* (none for a ticker the provider does not know)
HistoryOutcomes ==
    { [exc |-> "ConnectionError"],
      [exc |-> "none", df |-> <<>>],
      [exc |-> "none", df |-> <<[Close |-> 15000]>>],
      [exc |-> "none", df |-> <<[Close |-> 14900], [Close |-> 15100]>>] }

\* what openai.ChatCompletion.create does: it raises, or gives a response
\* with its choices
ChatOutcomes ==
    { [exc |-> "APIError"],
      [exc |-> "none", choices |-> <<>>],
      [exc |-> "none", choices |-> <<Words(<<T_dash, T_HOLD, T_TEST>>)>>],
      [exc |-> "none", choices |-> <<Words(<<T_dash, T_SELL, T_10, T_at, T_5p5, T_because>>)>>] }

\* os.getenv('OPENAI_API_KEY'): unset, set to the empty string, or set
ApiKeys == {[set |-> FALSE], [set |-> TRUE, value |-> ""], [set |-> TRUE, value |-> "sk-test"]}

\* the return value None, and any other return value
None == [state |-> "returned", none |-> TRUE]
Some(v) == [state |-> "returned", none |-> FALSE, value |-> v]

\* stock = yf.Ticker(ticker); stock.history(period=...)
history(ticker) == provider[ticker]

\* DataFetcher.get_stock_data
get_stock_data(ticker) ==
    LET data == history(ticker) IN
    IF data.exc # "none" THEN None ELSE Some(data.df)

\* DataFetcher.get_current_price
get_current_price(ticker) ==
    LET data == history(ticker) IN
    IF data.exc # "none" THEN None
    ELSE IF data.df # <<>> THEN Some(data.df[Len(data.df)].Close)
    ELSE None

RECURSIVE ForTickers_StopsAtFailure(_, _, _)
\* a loop that gives up at the first ticker without a price
ForTickers_StopsAtFailure(tickers, k, prices) ==
    IF k > Len(tickers) THEN prices
    ELSE LET price == get_current_price(tickers[k]) IN
         IF ~price.none
         THEN ForTickers_StopsAtFailure(tickers, k + 1, (tickers[k] :> price.value) @@ prices)
         ELSE prices

RECURSIVE ForTickers(_, _, _)
\* for ticker in tickers: ...; prices is the dict built so far
ForTickers(tickers, k, prices) ==
    IF k > Len(tickers) THEN prices
    ELSE LET price == get_current_price(tickers[k]) IN
         IF ~price.none
         THEN ForTickers(tickers, k + 1, (tickers[k] :> price.value) @@ prices)
         ELSE ForTickers(tickers, k + 1, prices)

\* DataFetcher.get_multiple_prices
get_multiple_prices(tickers) == Some(ForTickers(tickers, 1, <<>>))

\* what a call of get_trading_decision returned, and whether it called the API
Outcome(returned, called) ==
    [fn |-> "get_trading_decision", result |-> returned, llm_called |-> called]

\* if not self.api_key
KeyMissing(key) == ~key.set \/ key.value = ""

\* a get_trading_decision that calls the API whatever the key is
get_trading_decision_NoKeyCheck(key, serialisable, chat) ==
    IF ~serialisable THEN Outcome(None, FALSE)
    ELSE IF chat.exc # "none" \/ chat.choices = <<>> THEN Outcome(None, TRUE)
    ELSE LET actions == _parse_actions(chat.choices[1]) IN
         IF actions.state = "raised" THEN Outcome(None, TRUE)
         ELSE Outcome(Some([raw_response |-> chat.choices[1], timestamp |-> "manual",
                            actions |-> actions.actions]), TRUE)

\* DecisionMaker.get_trading_decision: serialisable says whether json.dumps
\* accepts the two arguments of generate_trading_prompt
get_trading_decision(key, serialisable, chat) ==
    IF KeyMissing(key) THEN Outcome(None, FALSE)
    ELSE IF ~serialisable THEN Outcome(None, FALSE)
    ELSE IF chat.exc # "none" \/ chat.choices = <<>> THEN Outcome(None, TRUE)
    ELSE LET actions == _parse_actions(chat.choices[1]) IN
         IF actions.state = "raised" THEN Outcome(None, TRUE)
         ELSE Outcome(Some([raw_response |-> chat.choices[1], timestamp |-> "manual",
                            actions |-> actions.actions]), TRUE)

InitGateway ==
    /\ provider \in [FetchTickers -> HistoryOutcomes]
    /\ api_key \in ApiKeys
    /\ llm \in ChatOutcomes
    /\ reply = Pending
    /\ response_text = <<>>
    /\ parsed = Pending
    /\ portfolio_file = NoFile
    /\ trade_file = NoFile
    /\ pc = "idle"
    /\ portfolio = <<>>
    /\ response = NoResponse
    /\ holdings = <<>>
    /\ cash = 0
    /\ day = "trading"
    /\ market = <<>>
    /\ result = Pending
    /\ NoRuns
    /\ NoLog

\* a call of get_stock_data
GetStockData ==
    /\ \E ticker \in FetchTickers :
           reply' = [fn |-> "get_stock_data", ticker |-> ticker,
                     result |-> get_stock_data(ticker)]
    /\ UNCHANGED <<provider, api_key, llm, parser_vars, file_vars, web_vars, batch_vars,
                   run_vars, log_vars>>

\* a call of get_current_price (tests/test_data.py line 79)
GetCurrentPrice ==
    /\ \E ticker \in FetchTickers :
           reply' = [fn |-> "get_current_price", ticker |-> ticker,
                     result |-> get_current_price(ticker)]
    /\ UNCHANGED <<provider, api_key, llm, parser_vars, file_vars, web_vars, batch_vars,
                   run_vars, log_vars>>

\* a call of get_multiple_prices (tests/test_data.py line 58)
GetMultiplePrices ==
    /\ \E tickers \in SeqsUpTo(FetchTickers, MaxTickers) :
           reply' = [fn |-> "get_multiple_prices", tickers |-> tickers,
                     result |-> get_multiple_prices(tickers)]
    /\ UNCHANGED <<provider, api_key, llm, parser_vars, file_vars, web_vars, batch_vars,
                   run_vars, log_vars>>

\* a call of get_trading_decision
GetTradingDecision ==
    /\ \E serialisable \in BOOLEAN :
           reply' = get_trading_decision(api_key, serialisable, llm)
    /\ UNCHANGED <<provider, api_key, llm, parser_vars, file_vars, web_vars, batch_vars,
                   run_vars, log_vars>>

NextGateway ==
    \/ GetStockData
    \/ GetCurrentPrice
    \/ GetMultiplePrices
    \/ GetTradingDecision

SpecGateway == InitGateway /\ [][NextGateway]_vars

(***************************************************************************)
(* Claims about the gateway.                                               *)
(***************************************************************************)
Replied(fn) == reply # Pending /\ reply.fn = fn

\* the market-data call for the ticker of the reply failed
HistoryFailed == provider[reply.ticker].exc # "none"

\* the market-data call for the ticker of the reply gave no rows
HistoryEmpty == provider[reply.ticker].exc = "none" /\ provider[reply.ticker].df = <<>>

\* what the claim says of the LLM call: None when the call fails or no key is
\* configured, and then no call at all
DecisionAbsence ==
    Replied("get_trading_decision") =>
        /\ reply.result.state = "returned"
        /\ (KeyMissing(api_key) \/ llm.exc # "none") => reply.result.none
        /\ KeyMissing(api_key) => ~reply.llm_called

\* C13 as stated: get_current_price and get_stock_data return None when the
\* market-data call fails or returns no rows, get_trading_decision returns
\* None when the LLM call fails or no key is configured (without calling);
\* none of them raises.
C13_FailureIsNone ==
    /\ (Replied("get_current_price") \/ Replied("get_stock_data")) =>
           /\ reply.result.state = "returned"
           /\ (HistoryFailed \/ HistoryEmpty) => reply.result.none
    /\ DecisionAbsence

\* C13 amended: as stated, except that get_stock_data returns None only when
\* the market-data call raises; when the call returns no rows it returns that
\* empty table.
C13_FailureIsNone_Amended ==
    /\ Replied("get_current_price") =>
           /\ reply.result.state = "returned"
           /\ (HistoryFailed \/ HistoryEmpty) => reply.result.none
    /\ Replied("get_stock_data") =>
           /\ reply.result.state = "returned"
           /\ HistoryFailed => reply.result.none
           /\ HistoryEmpty => ~reply.result.none /\ reply.result.value = <<>>
    /\ DecisionAbsence

\* C13's case: get_stock_data on a ticker the provider has no rows for gave
\* the empty table
C13_Witness ==
    /\ Replied("get_stock_data")
    /\ reply.ticker = "INVALID_TICKER_12345"
    /\ HistoryEmpty
    /\ reply.result = Some(<<>>)

\* the tickers of a list
Elements(q) == {q[k] : k \in 1..Len(q)}

\* C14: the keys of the map get_multiple_prices returns are exactly the input
\* tickers the provider has a price for, each mapped to its latest close; a
\* ticker whose fetch failed is no key, and it does not keep the others out.
C14_KeysArePricedTickers ==
    Replied("get_multiple_prices") =>
        /\ reply.result.state = "returned"
        /\ ~reply.result.none
        /\ DOMAIN reply.result.value
               = {t \in Elements(reply.tickers) :
                     provider[t].exc = "none" /\ provider[t].df # <<>>}
        /\ \A t \in DOMAIN reply.result.value :
               reply.result.value[t] = provider[t].df[Len(provider[t].df)].Close

\* C14's case: the first ticker of the list failed and the second is in the map
C14_Witness ==
    /\ Replied("get_multiple_prices")
    /\ Len(reply.tickers) = 2
    /\ provider[reply.tickers[1]].exc # "none"
    /\ DOMAIN reply.result.value = {reply.tickers[2]}
    /\ reply.result.value[reply.tickers[2]] = 15100

(***************************************************************************)
(* DecisionMaker.log_decision (src/src/decision_maker.py lines 167-191).   *)
(* The text of the log is the sequence of chunks json.dump writes: the     *)
(* brackets, the braces, the commas and one chunk per key with its value.  *)
(* A decision is a dict of two keys; the value OBJECT stands for a value   *)
(* json cannot serialise.                                                  *)
(***************************************************************************)
MaxCalls == 3        \* calls of log_decision on one log file

Decisions ==
    [raw_response : {"a", "b"}, timestamp : {"manual"}]
        \cup [raw_response : {"c"}, timestamp : {"OBJECT"}]

\* the chunks of one dict, up to the value json raises TypeError on
EncodeDict(d) ==
    IF d.timestamp = "OBJECT"
    THEN [exc |-> "TypeError",
          text |-> << <<"{">>, <<"raw_response", d.raw_response>>, <<"timestamp">> >>]
    ELSE [exc |-> "none",
          text |-> << <<"{">>, <<"raw_response", d.raw_response>>,
                      <<"timestamp", d.timestamp>>, <<"}">> >>]

RECURSIVE EncodeItems(_, _, _)
\* the chunks of the items k.. of a list, after the chunks written so far
EncodeItems(log_data, k, text) ==
    IF k > Len(log_data) THEN [exc |-> "none", text |-> text \o << <<"]">> >>]
    ELSE LET item == EncodeDict(log_data[k])
             sep  == IF k = 1 THEN <<>> ELSE << <<",">> >>
         IN  IF item.exc # "none"
             THEN [exc |-> item.exc, text |-> text \o sep \o item.text]
             ELSE EncodeItems(log_data, k + 1, text \o sep \o item.text)

\* json.dump(log_data, f, indent=2): what reaches the file, and the exception
\* if one ends the writing
dump(log_data) == EncodeItems(log_data, 1, << <<"[">> >>)

\* the four chunks at position i are one dict
DictAt(text, i) ==
    /\ text[i] = <<"{">>
    /\ Len(text[i + 1]) = 2 /\ text[i + 1][1] = "raw_response"
    /\ Len(text[i + 2]) = 2 /\ text[i + 2][1] = "timestamp"
    /\ text[i + 3] = <<"}">>

\* json.load(f): the list, another JSON value, or JSONDecodeError
load(text) ==
    LET n == Len(text)
        k == (n - 1) \div 5
    IN  IF n = 4 /\ DictAt(text, 1)
        THEN [exc |-> "none", is_list |-> FALSE]
        ELSE IF n = 2 /\ text = << <<"[">>, <<"]">> >>
        THEN [exc |-> "none", is_list |-> TRUE, value |-> <<>>]
        ELSE IF /\ n >= 6 /\ n = 5 * k + 1
                /\ text[1] = <<"[">> /\ text[n] = <<"]">>
                /\ \A j \in 1..k : DictAt(text, 5 * j - 3)
                /\ \A j \in 1..(k - 1) : text[5 * j + 1] = <<",">>
        THEN [exc |-> "none", is_list |-> TRUE,
              value |-> [j \in 1..k |->
                            [raw_response |-> text[5 * j - 2][2],
                             timestamp    |-> text[5 * j - 1][2]]]]
        ELSE [exc |-> "JSONDecodeError"]

\* a log file: its permissions and its text
LogFileOf(mode, text) == [exists |-> TRUE, mode |-> mode, text |-> text]

\* lines 187-188: open(log_file, 'w') empties the file, json.dump then writes
\* chunk by chunk
write_log(file, log_data) ==
    IF file.exists /\ file.mode # "rw"
    THEN [exc |-> "PermissionError", file |-> file]
    ELSE LET out == dump(log_data) IN
         [exc |-> out.exc, file |-> LogFileOf("rw", out.text)]

\* log_decision(decision, log_file): the file it leaves and the error it
\* prints; every exception is caught at line 190
log_decision(decision, file) ==
    IF file.exists /\ file.mode = "-w"
    THEN [state |-> "returned", error |-> "PermissionError", file |-> file]
    ELSE LET old == IF file.exists THEN load(file.text)
                    ELSE [exc |-> "none", is_list |-> TRUE, value |-> <<>>]
         IN  IF old.exc # "none"
             THEN [state |-> "returned", error |-> old.exc, file |-> file]
             ELSE IF ~old.is_list
             THEN [state |-> "returned", error |-> "AttributeError", file |-> file]
             ELSE LET out == write_log(file, Append(old.value, decision)) IN
                  [state |-> "returned", error |-> out.exc, file |-> out.file]

DecisionA == [raw_response |-> "a", timestamp |-> "manual"]

\* the log files a call may find
LogFiles ==
    { NoFile,
      LogFileOf("rw", dump(<<>>).text),
      LogFileOf("rw", dump(<<DecisionA>>).text),
      LogFileOf("r-", dump(<<DecisionA>>).text),
      LogFileOf("-w", dump(<<DecisionA>>).text),
      LogFileOf("rw", EncodeDict(DecisionA).text),
      LogFileOf("rw", << <<"[">>, <<"{">>, <<"raw_response", "a">> >>),
      LogFileOf("rw", <<>>) }

InitLog ==
    /\ log_file \in LogFiles
    /\ logged = <<>>
    /\ log_outcome = Pending
    /\ response_text = <<>>
    /\ parsed = Pending
    /\ portfolio_file = NoFile
    /\ trade_file = NoFile
    /\ pc = "idle"
    /\ portfolio = <<>>
    /\ response = NoResponse
    /\ holdings = <<>>
    /\ cash = 0
    /\ day = "trading"
    /\ market = <<>>
    /\ result = Pending
    /\ NoRuns
    /\ NoGateway

\* a call of log_decision
LogDecision ==
    /\ Len(logged) < MaxCalls
    /\ \E decision \in Decisions :
           LET out == log_decision(decision, log_file) IN
           /\ logged' = Append(logged, decision)
           /\ log_file' = out.file
           /\ log_outcome' = [state |-> out.state, error |-> out.error]
    /\ UNCHANGED <<parser_vars, file_vars, web_vars, batch_vars, run_vars, gateway_vars>>

NextLog == LogDecision

SpecLog == InitLog /\ [][NextLog]_vars

(***************************************************************************)
(* Claims about the decision log.                                          *)
(***************************************************************************)
\* the decisions a log file holds, when it is absent or a readable JSON list
HoldsList(file) ==
    ~file.exists \/ (load(file.text).exc = "none" /\ load(file.text).is_list)

EntriesOf(file) == IF file.exists THEN load(file.text).value ELSE <<>>

\* C19: log_decision raises nothing; a call on a log that holds a list of
\* decisions leaves a log that holds the same decisions in the same order,
\* followed by the new one when the call succeeded; a call on any other log
\* leaves the file as it was.
C19_AppendOnly ==
    /\ [](log_outcome # Pending => log_outcome.state = "returned")
    /\ [][logged' # logged =>
             LET decision == logged'[Len(logged')] IN
             IF HoldsList(log_file)
             THEN /\ HoldsList(log_file')
                  /\ EntriesOf(log_file') =
                         IF log_outcome'.error = "none"
                         THEN Append(EntriesOf(log_file), decision)
                         ELSE EntriesOf(log_file)
             ELSE log_file' = log_file]_vars

====
